---- MODULE Spec2Model ----
(***************************************************************************)
(* pyzoo/zoo/zouwu/model/forecast.py: the Forecaster base class and its     *)
(* two leaves, LSTMForecaster and MTNetForecaster.                          *)
(*                                                                          *)
(* One forecaster is constructed, one statement group at a time.  The code  *)
(* is cut at its calls into the external libraries (VanillaLSTM,            *)
(* MTNetKeras, tfpark.KerasModel): each such call is one action, which      *)
(* either returns or raises, followed by the statements that run up to the  *)
(* next external call.  `calls` is the history of what the code did to its  *)
(* collaborators; the external objects live in `heap`.                      *)
(***************************************************************************)
EXTENDS Integers, Sequences, FiniteSets, TLC

VARIABLES
    pc,       \* position of the constructor
    cls,      \* the class being instantiated
    kwargs,   \* the keyword arguments the caller gave (a dict)
    attrs,    \* self.__dict__ of the forecaster
    frame,    \* the local variable `internal` of LSTMForecaster._build
    heap,     \* the external objects created so far; an object's id is its index
    calls,    \* history of _build entries/exits and of external calls
    err,      \* the exception the construction ended with, or "none"
    ncalls,   \* number of preprocess_input calls made
    last,     \* the latest internal._gen_hist_inputs call and its outcome
    ret       \* the outcome of the latest preprocess_input call

vars == <<pc, cls, kwargs, attrs, frame, heap, calls, err, ncalls, last, ret>>

(* Bounds of the model. *)
MaxHorizon == 2
MaxFeatureDim == 2
MaxCalls == 2
MaxX == 2
MaxTensor == 2

(* Python's None.  Every integer the code handles here (horizon,            *)
(* feature_dim, layer sizes, object ids) is >= 1.                           *)
None == 0

EmptyDict == [k \in {} |-> None]

(* dict.get(key): the value, or None when the key is absent. *)
DictGet(d, k) == IF k \in DOMAIN d THEN d[k] ELSE None

(* setattr(obj, name, value) on a __dict__. *)
SetAttr(d, n, v) == [k \in (DOMAIN d) \cup {n} |-> IF k = n THEN v ELSE d[k]]

(* ---------------------------------------------------------------------- *)
(* The class hierarchy.  BareForecaster stands for a subclass of           *)
(* Forecaster with an empty body (it defines no _build).                   *)
(* ---------------------------------------------------------------------- *)
Classes == {"Forecaster", "BareForecaster", "LSTMForecaster", "MTNetForecaster"}

Concrete == {"LSTMForecaster", "MTNetForecaster"}

(* The methods each class body defines. *)
Defines(c) ==
    CASE c = "Forecaster"      -> {"__init__", "_build"}
      [] c = "LSTMForecaster"  -> {"__init__", "_build"}
      [] c = "MTNetForecaster" -> {"__init__", "_build", "preprocess_input"}
      [] OTHER                 -> {}

(* The methods a class body marks @abstractmethod. *)
DeclaredAbstract(c) == IF c = "Forecaster" THEN {"_build"} ELSE {}

MRO(c) == IF c = "Forecaster" THEN <<c>> ELSE <<c, "Forecaster">>

(* The class whose definition of method m an instance of c runs. *)
Resolve(c, m) ==
    LET I == {i \in 1..Len(MRO(c)) : m \in Defines(MRO(c)[i])}
    IN  MRO(c)[CHOOSE i \in I : \A j \in I : i <= j]

(* Variant: _build is not marked abstract. *)
NoAbstractMethods(c) == {}

(* __abstractmethods__ of class c: the abstract names that no class ahead  *)
(* in the MRO overrides.  ABCMeta refuses to instantiate when non-empty.   *)
AbstractMethods(c) ==
    {m \in DeclaredAbstract("Forecaster") : m \in DeclaredAbstract(Resolve(c, m))}

(* ---------------------------------------------------------------------- *)
(* Constructor signatures.                                                  *)
(* ---------------------------------------------------------------------- *)
Params(c) ==
    CASE c = "LSTMForecaster"  -> {"horizon", "feature_dim", "lstm_1_units", "dropout_1",
                                   "lstm_2_units", "dropout_2", "metric", "lr",
                                   "uncertainty"}
      [] c = "MTNetForecaster" -> {"horizon", "feature_dim", "metric", "uncertainty"}
      [] OTHER                 -> {}

DefaultHorizon == 1
DefaultFeatureDim == 1
DefaultLstm1Units == 16
DefaultLstm2Units == 8

Defaults ==
    [horizon |-> DefaultHorizon, feature_dim |-> DefaultFeatureDim,
     lstm_1_units |-> DefaultLstm1Units, dropout_1 |-> "0.2",
     lstm_2_units |-> DefaultLstm2Units, dropout_2 |-> "0.2",
     metric |-> "mean_squared_error", lr |-> "0.001", uncertainty |-> FALSE]

(* The values a caller passes explicitly (floats are opaque tokens). *)
Given ==
    [horizon : 1..MaxHorizon, feature_dim : 1..MaxFeatureDim,
     lstm_1_units : {32}, dropout_1 : {"0.5"}, lstm_2_units : {4}, dropout_2 : {"0.1"},
     metric : {"mean_squared_error", "mae"}, lr : {"0.01"}, uncertainty : BOOLEAN]

(* Argument binding: a parameter takes the caller's value, else its default. *)
Bind(c, kw) == [p \in Params(c) |-> IF p \in DOMAIN kw THEN kw[p] ELSE Defaults[p]]

(* ---------------------------------------------------------------------- *)
(* The subclass constructors up to their super().__init__() call: the      *)
(* instance attributes they assign.  a is the bound argument record.       *)
(* ---------------------------------------------------------------------- *)
(* Variant: the feature_dim assignment is forgotten. *)
LSTMForecasterInitNoFeatureDim(a) ==
    [horizon               |-> a.horizon,
     check_optional_config |-> FALSE,
     uncertainty           |-> a.uncertainty,
     model_config          |-> [lr           |-> a.lr,
                                lstm_1_units |-> a.lstm_1_units,
                                dropout_1    |-> a.dropout_1,
                                lstm_2_units |-> a.lstm_2_units,
                                dropout_2    |-> a.dropout_2,
                                metric       |-> a.metric]]

(* Variant: the two dropout entries are crossed. *)
LSTMForecasterInitCrossed(a) ==
    [horizon               |-> a.horizon,
     check_optional_config |-> FALSE,
     uncertainty           |-> a.uncertainty,
     feature_dim           |-> a.feature_dim,
     model_config          |-> [lr           |-> a.lr,
                                lstm_1_units |-> a.lstm_1_units,
                                dropout_1    |-> a.dropout_2,
                                lstm_2_units |-> a.lstm_2_units,
                                dropout_2    |-> a.dropout_1,
                                metric       |-> a.metric]]

LSTMForecasterInit(a) ==
    [horizon               |-> a.horizon,
     check_optional_config |-> FALSE,
     uncertainty           |-> a.uncertainty,
     feature_dim           |-> a.feature_dim,
     model_config          |-> [lr           |-> a.lr,
                                lstm_1_units |-> a.lstm_1_units,
                                dropout_1    |-> a.dropout_1,
                                lstm_2_units |-> a.lstm_2_units,
                                dropout_2    |-> a.dropout_2,
                                metric       |-> a.metric]]

(* Variant: feature_dim and horizon are crossed in the config. *)
MTNetForecasterInitCrossed(a) ==
    [check_optional_config |-> FALSE,
     mc                    |-> a.uncertainty,
     model_config          |-> [feature_num |-> a.horizon,
                                output_dim  |-> a.feature_dim,
                                metrics     |-> <<a.metric>>],
     internal              |-> None]

(* Variant: model_ is pre-assigned None, the way internal is. *)
MTNetForecasterInitEager(a) ==
    [check_optional_config |-> FALSE,
     mc                    |-> a.uncertainty,
     model_config          |-> [feature_num |-> a.feature_dim,
                                output_dim  |-> a.horizon,
                                metrics     |-> <<a.metric>>],
     internal              |-> None,
     model_                |-> None]

MTNetForecasterInit(a) ==
    [check_optional_config |-> FALSE,
     mc                    |-> a.uncertainty,
     model_config          |-> [feature_num |-> a.feature_dim,
                                output_dim  |-> a.horizon,
                                metrics     |-> <<a.metric>>],
     internal              |-> None]

(* Forecaster.__init__ itself assigns nothing before it calls _build. *)
InitAttrs(c, a) ==
    CASE Resolve(c, "__init__") = "LSTMForecaster"  -> LSTMForecasterInit(a)
      [] Resolve(c, "__init__") = "MTNetForecaster" -> MTNetForecasterInit(a)
      [] OTHER                                      -> EmptyDict

(* ---------------------------------------------------------------------- *)
(* The keyword arguments of each external call, read from self (s).        *)
(* ---------------------------------------------------------------------- *)
(* Variant: the horizon is looked up in model_config, which has no such key. *)
LSTMKerasModelArgsFromConfig(s) ==
    [check_optional_config |-> s.check_optional_config,
     future_seq_len        |-> DictGet(s.model_config, "horizon")]

LSTMKerasModelArgs(s) ==
    [check_optional_config |-> s.check_optional_config,
     future_seq_len        |-> s.horizon]

(* internal._build(mc=self.uncertainty, **self.model_config) *)
LSTMBuildArgs(s) ==
    [k \in (DOMAIN s.model_config) \cup {"mc"} |->
        IF k = "mc" THEN s.uncertainty ELSE s.model_config[k]]

MTNetKerasModelArgs(s) ==
    [check_optional_config |-> s.check_optional_config,
     future_seq_len        |-> DictGet(s.model_config, "horizon")]

GetAttributesEpochs == 1

GetAttributesArgs(s) ==
    [mc      |-> s.mc,
     metrics |-> DictGet(s.model_config, "metrics"),
     epochs  |-> GetAttributesEpochs,
     config  |-> s.model_config]

(* Variant: mc is not forwarded. *)
BuildTrainArgsNoMc(s) ==
    [mc      |-> FALSE,
     metrics |-> DictGet(s.model_config, "metrics")]

BuildTrainArgs(s) ==
    [mc      |-> s.mc,
     metrics |-> DictGet(s.model_config, "metrics")]

(* Variant: the wrapper object is handed to the base initializer. *)
SuperInitArgsInternal(s) == [model |-> DictGet(s, "internal")]

(* super().__init__(self.model_) *)
SuperInitArgs(s) == [model |-> s.model_]

(* Variant: preprocess_input delegates to the built keras model. *)
PreprocessInputSelfModel(s) == s.model_

(* The object preprocess_input delegates to. *)
PreprocessInputSelf(s) == s.internal

(* The attributes of self that the statements at each position read. *)
Reads(p) ==
    CASE p = "lstm_new"             -> {"check_optional_config", "horizon"}
      [] p = "lstm_build"           -> {"uncertainty", "model_config"}
      [] p = "mtnet_new"            -> {"check_optional_config", "model_config"}
      [] p = "mtnet_get_attributes" -> {"internal", "mc", "model_config"}
      [] p = "mtnet_build_train"    -> {"internal", "mc", "model_config"}
      [] p = "super_init"           -> {"model_"}
      [] OTHER                      -> {}

(* Where the body of class b's _build starts. *)
EntryPc(b) == IF b = "LSTMForecaster" THEN "lstm_new" ELSE "mtnet_new"

(* An entry of the history. ev is "call", "return" or "raise". *)
Ev(callee, ev, self, args, r) ==
    [callee |-> callee, ev |-> ev, self |-> self, args |-> args, ret |-> r]

(* A fresh external object. *)
NewObject(type) == [type |-> type, feature_num |-> None]

Tensors == 1..MaxTensor

(* ---------------------------------------------------------------------- *)
(* State machine.                                                           *)
(* ---------------------------------------------------------------------- *)
Init ==
    /\ pc = "start"
    /\ cls = "Forecaster"
    /\ kwargs = EmptyDict
    /\ attrs = EmptyDict
    /\ frame = [internal |-> None]
    /\ heap = <<>>
    /\ calls = <<>>
    /\ err = "none"
    /\ ncalls = 0
    /\ last = [ev |-> "none", self |-> None, x |-> None, ret |-> <<>>]
    /\ ret = [ev |-> "none", x |-> None, value |-> <<>>]

(* An exception leaves the constructor: nothing in this file catches it. *)
Raise(e) == pc' = "raised" /\ err' = e

CanRead == Reads(pc) \subseteq DOMAIN attrs

(* Constructing c with keywords kw: ABCMeta instantiation check, the      *)
(* subclass __init__ body, and                                             *)
(* Forecaster.__init__ up to the first external call made by _build.       *)
(* Forecaster._build is `pass`: it returns None at once.                   *)
Instantiate(c, kw) ==
    /\ pc = "start"
    /\ cls' = c
    /\ kwargs' = kw
    /\ UNCHANGED <<frame, heap, ncalls, last, ret>>
    /\ IF AbstractMethods(c) # {}
       THEN /\ Raise("TypeError")
            /\ UNCHANGED <<attrs, calls>>
       ELSE LET s == InitAttrs(c, Bind(c, kw))
                b == Resolve(c, "_build")
                entry == Ev("_build", "call", None, EmptyDict, None)
            IN  /\ err' = err
                /\ IF b = "Forecaster"
                   THEN /\ attrs' = SetAttr(s, "model_", None)
                        /\ calls' = <<entry, Ev("_build", "return", None, EmptyDict, None)>>
                        /\ pc' = "super_init"
                   ELSE /\ attrs' = s
                        /\ calls' = <<entry>>
                        /\ pc' = EntryPc(b)

(* LSTMForecaster._build, lines 97-100: internal = LSTMKerasModel(...);    *)
(* internal.feature_num = self.feature_dim.                                *)
LSTMNew ==
    /\ pc = "lstm_new"
    /\ UNCHANGED <<cls, kwargs, attrs, ncalls, last, ret>>
    /\ IF ~CanRead
       THEN Raise("AttributeError") /\ UNCHANGED <<frame, heap, calls>>
       ELSE \E ok \in BOOLEAN :
            LET id == Len(heap) + 1
                a  == LSTMKerasModelArgs(attrs)
            IN  IF ~ok
                THEN /\ calls' = Append(calls, Ev("VanillaLSTM.__init__", "raise", None, a, None))
                     /\ Raise("ExternalError")
                     /\ UNCHANGED <<frame, heap>>
                ELSE /\ calls' = Append(calls, Ev("VanillaLSTM.__init__", "return", id, a, id))
                     /\ frame' = [internal |-> id]
                     /\ IF "feature_dim" \in DOMAIN attrs
                        THEN /\ heap' = Append(heap, [NewObject("VanillaLSTM") EXCEPT
                                                        !.feature_num = attrs.feature_dim])
                             /\ pc' = "lstm_build"
                             /\ err' = err
                        ELSE /\ heap' = Append(heap, NewObject("VanillaLSTM"))
                             /\ Raise("AttributeError")

(* LSTMForecaster._build, line 101: return internal._build(...), and the   *)
(* assignment of its result to self.model_ in Forecaster.__init__ line 35. *)
LSTMBuild ==
    /\ pc = "lstm_build"
    /\ UNCHANGED <<cls, kwargs, frame, ncalls, last, ret>>
    /\ IF ~CanRead
       THEN Raise("AttributeError") /\ UNCHANGED <<attrs, heap, calls>>
       ELSE \E ok \in BOOLEAN :
            LET id == Len(heap) + 1
                a  == LSTMBuildArgs(attrs)
            IN  IF ~ok
                THEN /\ calls' = Append(calls, Ev("VanillaLSTM._build", "raise",
                                                  frame.internal, a, None))
                     /\ Raise("ExternalError")
                     /\ UNCHANGED <<attrs, heap>>
                ELSE /\ calls' = calls \o <<Ev("VanillaLSTM._build", "return",
                                               frame.internal, a, id),
                                            Ev("_build", "return", None, EmptyDict, id)>>
                     /\ heap' = Append(heap, NewObject("keras.Model"))
                     /\ attrs' = SetAttr(attrs, "model_", id)
                     /\ pc' = "super_init"
                     /\ err' = err

(* MTNetForecaster._build, line 139: self.internal = MTNetKerasModel(...). *)
MTNetNew ==
    /\ pc = "mtnet_new"
    /\ UNCHANGED <<cls, kwargs, frame, ncalls, last, ret>>
    /\ IF ~CanRead
       THEN Raise("AttributeError") /\ UNCHANGED <<attrs, heap, calls>>
       ELSE \E ok \in BOOLEAN :
            LET id == Len(heap) + 1
                a  == MTNetKerasModelArgs(attrs)
            IN  IF ~ok
                THEN /\ calls' = Append(calls, Ev("MTNetKeras.__init__", "raise", None, a, None))
                     /\ Raise("ExternalError")
                     /\ UNCHANGED <<attrs, heap>>
                ELSE /\ calls' = Append(calls, Ev("MTNetKeras.__init__", "return", id, a, id))
                     /\ heap' = Append(heap, NewObject("MTNetKeras"))
                     /\ attrs' = SetAttr(attrs, "internal", id)
                     /\ pc' = "mtnet_get_attributes"
                     /\ err' = err

(* MTNetForecaster._build, lines 141-144: self.internal._get_attributes(...). *)
MTNetGetAttributes ==
    /\ pc = "mtnet_get_attributes"
    /\ UNCHANGED <<cls, kwargs, attrs, frame, heap, ncalls, last, ret>>
    /\ IF ~CanRead
       THEN Raise("AttributeError") /\ UNCHANGED calls
       ELSE \E ok \in BOOLEAN :
            LET a == GetAttributesArgs(attrs)
            IN  IF ~ok
                THEN /\ calls' = Append(calls, Ev("MTNetKeras._get_attributes", "raise",
                                                  attrs.internal, a, None))
                     /\ Raise("ExternalError")
                ELSE /\ calls' = Append(calls, Ev("MTNetKeras._get_attributes", "return",
                                                  attrs.internal, a, None))
                     /\ pc' = "mtnet_build_train"
                     /\ err' = err

(* MTNetForecaster._build, lines 145-146: return                            *)
(* self.internal._build_train(...), and the assignment of its result to    *)
(* self.model_ in Forecaster.__init__ line 35.                             *)
MTNetBuildTrain ==
    /\ pc = "mtnet_build_train"
    /\ UNCHANGED <<cls, kwargs, frame, ncalls, last, ret>>
    /\ IF ~CanRead
       THEN Raise("AttributeError") /\ UNCHANGED <<attrs, heap, calls>>
       ELSE \E ok \in BOOLEAN :
            LET id == Len(heap) + 1
                a  == BuildTrainArgs(attrs)
            IN  IF ~ok
                THEN /\ calls' = Append(calls, Ev("MTNetKeras._build_train", "raise",
                                                  attrs.internal, a, None))
                     /\ Raise("ExternalError")
                     /\ UNCHANGED <<attrs, heap>>
                ELSE /\ calls' = calls \o <<Ev("MTNetKeras._build_train", "return",
                                               attrs.internal, a, id),
                                            Ev("_build", "return", None, EmptyDict, id)>>
                     /\ heap' = Append(heap, NewObject("keras.Model"))
                     /\ attrs' = SetAttr(attrs, "model_", id)
                     /\ pc' = "super_init"
                     /\ err' = err

(* Forecaster.__init__, line 36: super().__init__(self.model_). *)
SuperInit ==
    /\ pc = "super_init"
    /\ UNCHANGED <<cls, kwargs, attrs, frame, heap, ncalls, last, ret>>
    /\ IF ~CanRead
       THEN Raise("AttributeError") /\ UNCHANGED calls
       ELSE \E ok \in BOOLEAN :
            LET a == SuperInitArgs(attrs)
            IN  IF ~ok
                THEN /\ calls' = Append(calls, Ev("KerasModel.__init__", "raise", None, a, None))
                     /\ Raise("ExternalError")
                ELSE /\ calls' = Append(calls, Ev("KerasModel.__init__", "return", None, a, None))
                     /\ pc' = "done"
                     /\ err' = err

(* MTNetForecaster.preprocess_input(x), on a constructed forecaster:       *)
(* return self.internal._gen_hist_inputs(x).  The external call returns a  *)
(* pair of tensors or raises; either way the forecaster stays usable.      *)
PreprocessInput(x) ==
    /\ pc = "done"
    /\ "preprocess_input" \in Defines(cls)
    /\ ncalls < MaxCalls
    /\ ncalls' = ncalls + 1
    /\ UNCHANGED <<pc, cls, kwargs, attrs, frame, heap, calls, err>>
    /\ \E ok \in BOOLEAN, l \in Tensors, st \in Tensors :
         IF ~ok
         THEN /\ last' = [ev |-> "raise", self |-> PreprocessInputSelf(attrs), x |-> x,
                          ret |-> <<>>]
              /\ ret' = [ev |-> "raise", x |-> x, value |-> <<>>]
         ELSE /\ last' = [ev |-> "return", self |-> PreprocessInputSelf(attrs), x |-> x,
                          ret |-> <<l, st>>]
              /\ ret' = [ev |-> "return", x |-> x, value |-> <<l, st>>]

(* A caller constructs one forecaster: any class, any subset of its        *)
(* keyword parameters given explicitly.                                    *)
Construct ==
    /\ pc = "start"
    /\ \E c \in Classes : \E given \in SUBSET Params(c), v \in Given :
         Instantiate(c, [p \in given |-> v[p]])

Next ==
    \/ Construct
    \/ LSTMNew
    \/ LSTMBuild
    \/ MTNetNew
    \/ MTNetGetAttributes
    \/ MTNetBuildTrain
    \/ SuperInit
    \/ \E x \in 1..MaxX : PreprocessInput(x)

Spec == Init /\ [][Next]_vars

(* ---------------------------------------------------------------------- *)
(* Vocabulary of the properties.                                            *)
(* ---------------------------------------------------------------------- *)
(* The constructor's arguments after binding. *)
Args == Bind(cls, kwargs)

(* Positions in the history of the calls to `callee`, and those with outcome ev. *)
Called(callee) == {i \in DOMAIN calls : calls[i].callee = callee}
Idx(callee, ev) == {i \in Called(callee) : calls[i].ev = ev}

BuildCallees ==
    {"VanillaLSTM.__init__", "VanillaLSTM._build",
     "MTNetKeras.__init__", "MTNetKeras._get_attributes", "MTNetKeras._build_train"}

Constructing == pc # "start" /\ cls \in Concrete

LSTMConfigKeys == {"lr", "lstm_1_units", "dropout_1", "lstm_2_units", "dropout_2", "metric"}

(* C1: in one construction of a concrete forecaster _build is entered      *)
(* exactly once, its result is stored in model_, and only then is the      *)
(* TFPark KerasModel initializer called, exactly once, with that object;   *)
(* the initializer is never called before _build has returned.             *)
C1_BuildThenBaseInit ==
    Constructing =>
        /\ Cardinality(Idx("_build", "call")) = 1
        /\ Cardinality(Called("KerasModel.__init__")) <= 1
        /\ \A j \in Called("KerasModel.__init__") :
             \E i \in Idx("_build", "return") :
                /\ i < j
                /\ "model_" \in DOMAIN attrs
                /\ attrs.model_ = calls[i].ret
                /\ calls[j].args.model = calls[i].ret
        /\ pc = "done" => Cardinality(Called("KerasModel.__init__")) = 1

C1_Witness ==
    /\ pc = "done"
    /\ cls = "MTNetForecaster"
    /\ Idx("KerasModel.__init__", "return") # {}

(* C2: with valid hyperparameters and no external call raising, the        *)
(* construction of an LSTMForecaster or MTNetForecaster goes on to its end *)
(* without an exception: every attribute _build reads is assigned before   *)
(* _build runs, and the construction ends with model_ set.                 *)
C2_ConstructionCompletes ==
    (Constructing /\ \A i \in DOMAIN calls : calls[i].ev # "raise") =>
        /\ pc # "raised"
        /\ err = "none"
        /\ pc # "done" => ENABLED Next
        /\ cls = "LSTMForecaster" =>
             {"horizon", "check_optional_config", "uncertainty", "feature_dim",
              "model_config"} \subseteq DOMAIN attrs
        /\ cls = "MTNetForecaster" =>
             {"check_optional_config", "mc", "model_config"} \subseteq DOMAIN attrs
        /\ pc = "done" => "model_" \in DOMAIN attrs

C2_Witness ==
    /\ pc = "done"
    /\ cls = "LSTMForecaster"
    /\ err = "none"
    /\ "model_" \in DOMAIN attrs

(* C3: the MTNet model is constructed with future_seq_len equal to the     *)
(* horizon given to MTNetForecaster.                                       *)
C3_MTNetHorizonForwarded ==
    (Constructing /\ cls = "MTNetForecaster") =>
        \A i \in Called("MTNetKeras.__init__") :
            calls[i].args.future_seq_len = Args.horizon

(* C4: the VanillaLSTM model is constructed with future_seq_len equal to   *)
(* the horizon given to LSTMForecaster, and the forecaster's horizon       *)
(* attribute equals it.                                                    *)
C4_LSTMHorizonForwarded ==
    (Constructing /\ cls = "LSTMForecaster") =>
        /\ \A i \in Called("VanillaLSTM.__init__") :
             calls[i].args.future_seq_len = Args.horizon
        /\ attrs.horizon = Args.horizon
        /\ pc \in {"lstm_build", "super_init", "done"} =>
             Called("VanillaLSTM.__init__") # {}

C4_Witness ==
    /\ pc = "done"
    /\ cls = "LSTMForecaster"
    /\ "horizon" \in DOMAIN kwargs
    /\ Args.horizon # DefaultHorizon

(* C5: the uncertainty argument reaches the underlying model unchanged as  *)
(* mc on every call that takes it: the one VanillaLSTM._build call, and    *)
(* both MTNetKeras._get_attributes and MTNetKeras._build_train; with       *)
(* uncertainty omitted every such call receives mc = FALSE.                *)
C5_UncertaintyForwarded ==
    Constructing =>
        /\ \A i \in DOMAIN calls :
             "mc" \in DOMAIN calls[i].args =>
                /\ calls[i].args.mc = Args.uncertainty
                /\ "uncertainty" \notin DOMAIN kwargs => calls[i].args.mc = FALSE
        /\ \A i \in Called("VanillaLSTM._build") \cup Called("MTNetKeras._get_attributes")
                    \cup Called("MTNetKeras._build_train") :
             "mc" \in DOMAIN calls[i].args
        /\ (pc = "done" /\ cls = "LSTMForecaster") =>
             Cardinality(Called("VanillaLSTM._build")) = 1
        /\ (pc = "done" /\ cls = "MTNetForecaster") =>
             /\ Called("MTNetKeras._get_attributes") # {}
             /\ Called("MTNetKeras._build_train") # {}

C5_Witness ==
    /\ pc = "done"
    /\ cls = "MTNetForecaster"
    /\ Args.uncertainty = TRUE
    /\ \E i \in Called("MTNetKeras._build_train") : calls[i].args.mc = TRUE

(* C6: instantiating Forecaster, or a subclass that defines no _build,     *)
(* fails with an error before any model is built and before the TFPark     *)
(* KerasModel initializer is called; only a class with a _build of its own *)
(* is ever constructed.                                                    *)
C6_AbstractNotInstantiable ==
    /\ (pc # "start" /\ cls \notin Concrete) =>
          /\ pc = "raised"
          /\ err = "TypeError"
          /\ calls = <<>>
          /\ heap = <<>>
          /\ "model_" \notin DOMAIN attrs
    /\ pc \in {"super_init", "done"} => Resolve(cls, "_build") # "Forecaster"

C6_Witness ==
    /\ pc = "raised"
    /\ cls = "BareForecaster"
    /\ err = "TypeError"

(* C7: on a constructed MTNetForecaster internal is not None and is the    *)
(* MTNetKeras object whose _build_train produced model_; each              *)
(* preprocess_input(x) calls that object's _gen_hist_inputs(x) and returns *)
(* exactly what it returned; no call changes an attribute of the           *)
(* forecaster.                                                             *)
C7_PreprocessState ==
    (pc = "done" /\ cls = "MTNetForecaster") =>
        /\ attrs.internal # None
        /\ heap[attrs.internal].type = "MTNetKeras"
        /\ \E i \in Idx("MTNetKeras._build_train", "return") :
             /\ calls[i].self = attrs.internal
             /\ calls[i].ret = attrs.model_
        /\ ret.ev # "none" =>
             /\ last.ev = ret.ev
             /\ last.self = attrs.internal
             /\ last.x = ret.x
             /\ last.ret = ret.value
        /\ ret.ev = "return" => Len(ret.value) = 2

C7_PreprocessInput ==
    /\ []C7_PreprocessState
    /\ [][pc = "done" => attrs' = attrs]_vars

C7_Witness ==
    /\ ncalls = 2
    /\ ret.ev = "return"
    /\ last.self = attrs.internal

(* C8: LSTMForecaster's model_config has exactly the six keys lr,          *)
(* lstm_1_units, dropout_1, lstm_2_units, dropout_2, metric, each equal to *)
(* the constructor argument of that name; VanillaLSTM._build is called     *)
(* with exactly these six options plus mc, on an object whose feature_num  *)
(* is already feature_dim and that was made with                           *)
(* check_optional_config = FALSE.                                          *)
C8_LSTMConfigForwarded ==
    (Constructing /\ cls = "LSTMForecaster") =>
        /\ DOMAIN attrs.model_config = LSTMConfigKeys
        /\ \A k \in LSTMConfigKeys : attrs.model_config[k] = Args[k]
        /\ \A i \in Called("VanillaLSTM.__init__") :
             calls[i].args.check_optional_config = FALSE
        /\ \A i \in Called("VanillaLSTM._build") :
             /\ DOMAIN calls[i].args = LSTMConfigKeys \cup {"mc"}
             /\ \A k \in LSTMConfigKeys : calls[i].args[k] = Args[k]
             /\ heap[calls[i].self].type = "VanillaLSTM"
             /\ heap[calls[i].self].feature_num = Args.feature_dim
             /\ \E n \in Idx("VanillaLSTM.__init__", "return") :
                  n < i /\ calls[n].ret = calls[i].self

C8_Witness ==
    /\ pc = "done"
    /\ cls = "LSTMForecaster"
    /\ Args.dropout_1 # Args.dropout_2
    /\ Args.feature_dim # DefaultFeatureDim
    /\ Called("VanillaLSTM._build") # {}

(* C9: MTNetForecaster._build constructs one MTNetKeras object, then calls *)
(* its _get_attributes exactly once with epochs = 1 and config =           *)
(* {feature_num: feature_dim, output_dim: horizon, metrics: [metric]},     *)
(* then its _build_train exactly once, never before _get_attributes has    *)
(* returned; both calls receive the list [metric] as metrics.              *)
C9_MTNetCallOrder ==
    (Constructing /\ cls = "MTNetForecaster") =>
        /\ Cardinality(Called("MTNetKeras.__init__")) <= 1
        /\ Cardinality(Called("MTNetKeras._get_attributes")) <= 1
        /\ Cardinality(Called("MTNetKeras._build_train")) <= 1
        /\ \A g \in Called("MTNetKeras._get_attributes") :
             /\ \E n \in Idx("MTNetKeras.__init__", "return") :
                  n < g /\ calls[g].self = calls[n].ret
             /\ calls[g].args.epochs = 1
             /\ calls[g].args.config =
                  [feature_num |-> Args.feature_dim, output_dim |-> Args.horizon,
                   metrics |-> <<Args.metric>>]
             /\ calls[g].args.metrics = <<Args.metric>>
        /\ \A b \in Called("MTNetKeras._build_train") :
             /\ \E g \in Idx("MTNetKeras._get_attributes", "return") :
                  g < b /\ calls[b].self = calls[g].self
             /\ calls[b].args.metrics = <<Args.metric>>
        /\ pc \in {"super_init", "done"} =>
             /\ Cardinality(Called("MTNetKeras._get_attributes")) = 1
             /\ Cardinality(Called("MTNetKeras._build_train")) = 1

C9_Witness ==
    /\ pc = "done"
    /\ cls = "MTNetForecaster"
    /\ Args.horizon # Args.feature_dim
    /\ Idx("MTNetKeras._build_train", "return") # {}

(* C10: if an external call made during _build raises, the construction    *)
(* fails with that error, model_ is never assigned and the TFPark          *)
(* KerasModel initializer is never called; model_ is set only on a         *)
(* forecaster whose _build returned a model.                               *)
C10_BuildFailurePropagates ==
    Constructing =>
        /\ (\E i \in DOMAIN calls : calls[i].ev = "raise" /\ calls[i].callee \in BuildCallees) =>
              /\ pc = "raised"
              /\ err = "ExternalError"
              /\ "model_" \notin DOMAIN attrs
              /\ Called("KerasModel.__init__") = {}
        /\ "model_" \in DOMAIN attrs =>
              \E i \in Idx("_build", "return") :
                 /\ calls[i].ret = attrs.model_
                 /\ calls[i].ret \in DOMAIN heap
                 /\ heap[calls[i].ret].type = "keras.Model"

C10_Witness ==
    /\ pc = "raised"
    /\ cls = "MTNetForecaster"
    /\ Idx("MTNetKeras._build_train", "raise") # {}
    /\ attrs.internal # None

====
